---- MODULE Spec2Model ----
(***************************************************************************)
(* A model of src/main.py: the student store (a dict name -> {"grades":    *)
(* dict}) and the free functions add_student, update_grade,                *)
(* delete_student, display_records, save_data and load_data, run in the    *)
(* order of the script at the end of the file: edits of the store, then    *)
(* display, save, load and display of the loaded store.                    *)
(*                                                                         *)
(* Python values are records [type, val].  Python dicts are TLA+ functions *)
(* from keys to values.  The grades dicts are objects on a heap, so that   *)
(* two references to one dict can be told from two equal dicts.            *)
(***************************************************************************)
EXTENDS Integers, Sequences, FiniteSets, TLC

(* ------------------------------------------------------------------ *)
(* Bounds of the model                                                 *)
(* ------------------------------------------------------------------ *)

\* How many of NameOrder's names the callers use as student names.
NumNames == 2

(* ------------------------------------------------------------------ *)
(* Python values                                                       *)
(* ------------------------------------------------------------------ *)

\* The grade range of the validators (0 <= v <= 100).
MinGrade == 0
MaxGrade == 100

PyInt(n)   == [type |-> "int",   val |-> n]
PyFloat(n) == [type |-> "float", val |-> n]
PyFalse    == [type |-> "bool",  val |-> 0]
PyNone     == [type |-> "none",  val |-> 0]
\* A non-dict grades argument, such as the script's [("Math", 80)].
PyList     == [type |-> "list",  val |-> 0]
\* A reference to a dict object of the heap.
PyDict(r)  == [type |-> "dict",  val |-> r]

\* isinstance(v, int): bool is a subclass of int, so True and False pass.
IsInstanceInt(v) == v.type \in {"int", "bool"}

\* Strings that stand for keys or names that are not Python strings (None).
NonStr == {"<None>"}
\* isinstance(k, str)
IsInstanceStr(k) == k \notin NonStr
\* Strings made of whitespace only: str.strip() makes them empty.
Whitespace == {"", " "}
\* k.strip()
Strip(k) == IF k \in Whitespace THEN "" ELSE k

\* The empty dict.
EmptyDict == [k \in {} |-> PyNone]

\* Student names in the order sorted() gives them (code points).
NameOrder == <<"Alice", "Bob", "Ivy">>
\* Subjects in the order sorted() gives them.
SubjectOrder == <<"English", "Math", "Science">>

Names    == {NameOrder[i] : i \in 1..NumNames}
\* The subjects the callers use; files have Science too.
Subjects == {"English", "Math"}

(* ------------------------------------------------------------------ *)
(* Arguments the callers pass                                          *)
(* ------------------------------------------------------------------ *)

\* Names: the students' names, a blank string and None.
NameArgs    == Names \cup {" ", "<None>"}
\* Subjects: the subjects of the records and one no record has (the script's).
SubjectArgs == Subjects \cup {"Biology"}
\* Grades: at the edges of the range (False is the int 0), next to them
\* outside the range, and a value that is no int.
GoodGrades  == {PyFalse, PyInt(MaxGrade)}
BadGrades   == {PyInt(MinGrade - 1), PyInt(MaxGrade + 1), PyFloat(MaxGrade)}
GradeArgs   == GoodGrades \cup BadGrades

\* The dicts of grades the validator accepts, over Subjects.
GoodDicts == UNION {[K -> GoodGrades] : K \in (SUBSET Subjects) \ {{}}}
\* Dicts it refuses: empty, a blank or non-string subject, a grade that is out
\* of range or no int, alone or beside a valid entry.
BadDicts ==
    {EmptyDict}
    \cup {[k \in {" "} |-> PyInt(MaxGrade)], [k \in {"<None>"} |-> PyInt(MaxGrade)]}
    \cup {[k \in {"Math"} |-> v] : v \in BadGrades}
    \cup {[k \in {"English", "Math"} |-> IF k = "Math" THEN v ELSE PyInt(MinGrade)] :
              v \in BadGrades}
    \cup {[k \in {" ", "Math"} |-> PyInt(MaxGrade)]}
DictArgs == GoodDicts \cup BadDicts

(* ------------------------------------------------------------------ *)
(* State                                                               *)
(* ------------------------------------------------------------------ *)

VARIABLES
    students,   \* the store: name -> [grades |-> reference to a dict of the heap]
    heap,       \* reference -> dict (subject -> value)
    callerRef,  \* the caller's reference to the dict it passed to add_student
    last,       \* the last call, the name it was given, what it returned
    pc,         \* where the script is: "edit", "shown", "saved", "loaded", "done"
    file,       \* students.json
    writer,     \* what wrote students.json last: "none", "save" (a whole dump),
                \* "cut" (a dump that failed) or "other"
    loaded,     \* what load_data returned
    out         \* what the last display_records printed

vars == <<students, heap, callerRef, last, pc, file, writer, loaded, out>>

\* The reference of the caller's dict, and "no reference".
ArgRef == "@arg"
NoRef  == "@none"
\* The reference of the dict that dict(grades) makes for the record of `name`:
\* a record holds the only reference to it, and a name has one record at a time.
CopyRef(name) == name

\* The store with every reference replaced by the dict it refers to.
Deref(st, hp) == [n \in DOMAIN st |-> [grades |-> hp[st[n].grades]]]
View == Deref(students, heap)

\* The heap without the objects nothing refers to.
Collect(st, hp, keep) ==
    [r \in {x \in DOMAIN hp : x \in keep \/ \E n \in DOMAIN st : st[n].grades = x}
        |-> hp[r]]

(* ------------------------------------------------------------------ *)
(* Validation helpers                                                  *)
(* ------------------------------------------------------------------ *)

\* _is_valid_grades_dict without the test of the range.
IsValidGradesDictNoRange(hp, g) ==
    /\ g.type = "dict"
    /\ DOMAIN hp[g.val] # {}
    /\ \A k \in DOMAIN hp[g.val] :
          /\ IsInstanceStr(k) /\ Strip(k) # ""
          /\ IsInstanceInt(hp[g.val][k])

\* _is_valid_grades_dict(grades), grades an argument value.
IsValidGradesDict(hp, g) ==
    /\ g.type = "dict"
    /\ DOMAIN hp[g.val] # {}
    /\ \A k \in DOMAIN hp[g.val] :
          /\ IsInstanceStr(k) /\ Strip(k) # ""
          /\ IsInstanceInt(hp[g.val][k])
          /\ MinGrade <= hp[g.val][k].val /\ hp[g.val][k].val <= MaxGrade

\* _ensure_student_struct(students, name)
EnsureStudentStruct(st, hp, name) ==
    /\ name \in DOMAIN st
    /\ "grades" \in DOMAIN st[name]
    /\ st[name].grades \in DOMAIN hp

(* ------------------------------------------------------------------ *)
(* The operations on the store                                         *)
(* ------------------------------------------------------------------ *)

Result(r, st, hp) == [ret |-> r, students |-> st, heap |-> hp]

\* add_student keeping the caller's dict instead of a copy of it.
add_student_alias(st, hp, name, g) ==
    IF ~IsInstanceStr(name) \/ Strip(name) = "" THEN Result(FALSE, st, hp)
    ELSE IF name \in DOMAIN st THEN Result(FALSE, st, hp)
    ELSE IF ~IsValidGradesDict(hp, g) THEN Result(FALSE, st, hp)
    ELSE Result(TRUE,
                [n \in DOMAIN st \cup {name} |->
                    IF n = name THEN [grades |-> g.val] ELSE st[n]],
                hp)

\* add_student without the test for a name already present.
add_student_overwrite(st, hp, name, g) ==
    IF ~IsInstanceStr(name) \/ Strip(name) = "" THEN Result(FALSE, st, hp)
    ELSE IF ~IsValidGradesDict(hp, g) THEN Result(FALSE, st, hp)
    ELSE Result(TRUE,
                [n \in DOMAIN st \cup {name} |->
                    IF n = name THEN [grades |-> CopyRef(name)] ELSE st[n]],
                [r \in DOMAIN hp \cup {CopyRef(name)} |->
                    IF r = CopyRef(name) THEN hp[g.val] ELSE hp[r]])

\* add_student(students, name, grades)
add_student(st, hp, name, g) ==
    IF ~IsInstanceStr(name) \/ Strip(name) = "" THEN Result(FALSE, st, hp)
    ELSE IF name \in DOMAIN st THEN Result(FALSE, st, hp)
    ELSE IF ~IsValidGradesDict(hp, g) THEN Result(FALSE, st, hp)
    ELSE Result(TRUE,
                [n \in DOMAIN st \cup {name} |->
                    IF n = name THEN [grades |-> CopyRef(name)] ELSE st[n]],
                [r \in DOMAIN hp \cup {CopyRef(name)} |->
                    IF r = CopyRef(name) THEN hp[g.val] ELSE hp[r]])

\* update_grade writing the grade before it looks for the subject.
update_grade_early(st, hp, name, subject, newGrade) ==
    IF ~IsInstanceInt(newGrade)
       \/ ~(MinGrade <= newGrade.val /\ newGrade.val <= MaxGrade)
    THEN Result(FALSE, st, hp)
    ELSE IF ~EnsureStudentStruct(st, hp, name) THEN Result(FALSE, st, hp)
    ELSE Result(subject \in DOMAIN hp[st[name].grades], st,
                [hp EXCEPT ![st[name].grades] =
                    [k \in DOMAIN @ \cup {subject} |->
                        IF k = subject THEN newGrade ELSE @[k]]])

\* update_grade without the test for the subject: a new subject is made.
update_grade_upsert(st, hp, name, subject, newGrade) ==
    IF ~IsInstanceInt(newGrade)
       \/ ~(MinGrade <= newGrade.val /\ newGrade.val <= MaxGrade)
    THEN Result(FALSE, st, hp)
    ELSE IF ~EnsureStudentStruct(st, hp, name) THEN Result(FALSE, st, hp)
    ELSE Result(TRUE, st,
                [hp EXCEPT ![st[name].grades] =
                    [k \in DOMAIN @ \cup {subject} |->
                        IF k = subject THEN newGrade ELSE @[k]]])

\* update_grade(students, name, subject, new_grade)
update_grade(st, hp, name, subject, newGrade) ==
    IF ~IsInstanceInt(newGrade)
       \/ ~(MinGrade <= newGrade.val /\ newGrade.val <= MaxGrade)
    THEN Result(FALSE, st, hp)
    ELSE IF ~EnsureStudentStruct(st, hp, name) THEN Result(FALSE, st, hp)
    ELSE IF subject \notin DOMAIN hp[st[name].grades] THEN Result(FALSE, st, hp)
    ELSE Result(TRUE, st,
                [hp EXCEPT ![st[name].grades] =
                    [@ EXCEPT ![subject] = newGrade]])

\* delete_student as students.pop(name, None) followed by return True.
delete_student_pop(st, hp, name) ==
    Result(TRUE, [n \in DOMAIN st \ {name} |-> st[n]], hp)

\* delete_student(students, name)
delete_student(st, hp, name) ==
    IF name \in DOMAIN st
    THEN Result(TRUE, [n \in DOMAIN st \ {name} |-> st[n]], hp)
    ELSE Result(FALSE, st, hp)

EmptyStore == [n \in {} |-> [grades |-> NoRef]]
\* {} as load_data returns it and display_records reads it.
EmptyView  == [n \in {} |-> [grades |-> EmptyDict]]

(* ------------------------------------------------------------------ *)
(* JSON: what json.dump writes and json.load reads                     *)
(* ------------------------------------------------------------------ *)

\* A JSON value: its kind j, its number n (for the number kinds) and its
\* members mem (for an object).
NoMem     == [k \in {} |-> 0]
JInt(n)   == [j |-> "int",    n |-> n, mem |-> NoMem]   \* 90
JFrac(n)  == [j |-> "frac",   n |-> n, mem |-> NoMem]   \* 90.0
JTrue     == [j |-> "true",   n |-> 0, mem |-> NoMem]
JFalse    == [j |-> "false",  n |-> 0, mem |-> NoMem]
JNull     == [j |-> "null",   n |-> 0, mem |-> NoMem]
JString   == [j |-> "string", n |-> 0, mem |-> NoMem]   \* "x"
JArray    == [j |-> "array",  n |-> 0, mem |-> NoMem]   \* [1]
JObject(m) == [j |-> "object", n |-> 0, mem |-> m]

\* students.json: absent (or unreadable), text that is no JSON, or a document.
NoFile      == [kind |-> "absent",  doc |-> JNull]
Garbage     == [kind |-> "garbage", doc |-> JNull]
JsonFile(d) == [kind |-> "json",    doc |-> d]

\* json.dump of a grade written as float(v).
DumpValueFloat(v) == JFrac(v.val)

\* json.dump of a grade: an int as a number, a bool as true or false, a float
\* as a number with a fraction.
DumpValue(v) ==
    CASE v.type = "int"   -> JInt(v.val)
      [] v.type = "bool"  -> IF v.val = 1 THEN JTrue ELSE JFalse
      [] v.type = "float" -> JFrac(v.val)
      [] v.type = "none"  -> JNull
      [] OTHER            -> JString

\* json.dump(students): the store as a document.
DumpStore(view) ==
    JObject([n \in DOMAIN view |->
        JObject([key \in DOMAIN view[n] |->
            JObject([s \in DOMAIN view[n][key] |-> DumpValue(view[n][key][s])])])])

\* The Python type json.load gives a JSON value.
LoadType(jv) ==
    CASE jv.j = "int"    -> "int"
      [] jv.j = "frac"   -> "float"
      [] jv.j \in {"true", "false"} -> "bool"
      [] jv.j = "null"   -> "none"
      [] jv.j = "string" -> "str"
      [] jv.j = "array"  -> "list"
      [] OTHER           -> "dict"

\* json.load of a value that is no object.
LoadValue(jv) ==
    [type |-> LoadType(jv), val |-> IF jv.j = "true" THEN 1 ELSE jv.n]

\* json.load of a document whose shape load_data has accepted: a dict of
\* records, each with its grades dict and whatever other keys the file gives it.
LoadStore(doc) ==
    [n \in DOMAIN doc.mem |->
        [key \in DOMAIN doc.mem[n].mem |->
            IF key = "grades"
            THEN [s \in DOMAIN doc.mem[n].mem[key].mem |->
                     LoadValue(doc.mem[n].mem[key].mem[s])]
            ELSE LoadValue(doc.mem[n].mem[key])]]

\* load_data's check of one record: the first ValueError it would raise.
RecordShapeOk(name, rec) ==
    /\ IsInstanceStr(name)
    /\ LoadType(rec) = "dict" /\ "grades" \in DOMAIN rec.mem
    /\ LoadType(rec.mem["grades"]) = "dict"
    /\ \A subj \in DOMAIN rec.mem["grades"].mem :
          /\ IsInstanceStr(subj)
          /\ IsInstanceInt(LoadValue(rec.mem["grades"].mem[subj]))

\* load_data leaving out the records that fail the check.
load_data_skip(f) ==
    IF f.kind # "json" THEN EmptyView
    ELSE IF LoadType(f.doc) # "dict" THEN EmptyView
    ELSE LET all == LoadStore([f.doc EXCEPT !.mem =
                       [n \in {x \in DOMAIN f.doc.mem : RecordShapeOk(x, f.doc.mem[x])}
                           |-> f.doc.mem[n]]])
         IN all

\* load_data(filename): {} for a file that cannot be opened or parsed, and for
\* a document that fails the check.
load_data(f) ==
    IF f.kind # "json" THEN EmptyView
    ELSE IF LoadType(f.doc) # "dict" THEN EmptyView
    ELSE IF \E name \in DOMAIN f.doc.mem : ~RecordShapeOk(name, f.doc.mem[name])
         THEN EmptyView
    ELSE LoadStore(f.doc)

\* save_data(students, filename): with ok, the open and the write succeed.
\* Without, the file is as it was (open failed) when kept, and cut short
\* (the write failed) otherwise.
save_data(view, f, ok, kept) ==
    IF ok THEN [ret |-> TRUE, file |-> JsonFile(DumpStore(view))]
    ELSE [ret |-> FALSE, file |-> IF kept THEN f ELSE Garbage]

\* Files that save_data did not write: on the disk before the load.
G(m) == JObject([k \in {"grades"} |-> JObject(m)])
Rec1(name, rec) == JObject([n \in {name} |-> rec])
ForeignDocs ==
    {JArray, JInt(MaxGrade), JObject(NoMem)}
    \cup {Rec1("Alice", r) : r \in
            {JInt(MaxGrade), JObject(NoMem),
             JObject([k \in {"grades"} |-> JArray]),
             JObject([k \in {"marks"} |-> JObject([s \in {"Math"} |-> JInt(MaxGrade)])]),
             JObject([k \in {"grades", "age"} |->
                        IF k = "age" THEN JInt(MaxGrade)
                        ELSE JObject([s \in {"Math"} |-> JInt(MaxGrade)])]),
             G(NoMem)}}
    \cup {Rec1("Alice", G([s \in {"Math"} |-> v])) : v \in
            {JInt(MaxGrade), JInt(MaxGrade + 1), JInt(MinGrade - 1), JFrac(MaxGrade),
             JTrue, JNull, JString}}
    \cup {JObject([n \in {"Alice", "Bob"} |->
                     IF n = "Alice" THEN G([s \in {"English", "Math"} |-> JInt(MaxGrade)])
                     ELSE G([s \in {"Math"} |-> v])]) : v \in
            {JInt(MinGrade), JInt(MaxGrade + 1), JString, JFrac(MinGrade)}}
    \cup {JObject([n \in {"Alice", "Bob"} |->
                     G([s \in {"English", "Math", "Science"} |->
                          IF (n = "Alice") = (s = "Science") THEN JInt(MaxGrade) ELSE JTrue])])}
ForeignFiles == {Garbage, NoFile} \cup {JsonFile(d) : d \in ForeignDocs}

(* ------------------------------------------------------------------ *)
(* display_records                                                     *)
(* ------------------------------------------------------------------ *)

\* sorted(S), S a set of the strings of `order`.
Sorted(S, order) == SelectSeq(order, LAMBDA x : x \in S)

RECURSIVE SumSeq(_)
\* sum(q)
SumSeq(q) == IF q = <<>> THEN 0 ELSE Head(q) + SumSeq(Tail(q))

\* num / den (num >= 0, den > 0) rounded to an integer, a half to the even
\* one: the rounding of format's .2f when the half is exact.
RoundHalfEven(num, den) ==
    LET q == num \div den
        r == num % den
    IN IF 2 * r > den THEN q + 1
       ELSE IF 2 * r < den THEN q
       ELSE IF q % 2 = 0 THEN q ELSE q + 1

\* f"{total / count:.2f}", and f"{0.0:.2f}" without any grade, in hundredths.
\* The float total / count is the double next to the fraction, and format
\* rounds that double: a half is exact only over count = 2, 4, 8, ... below 40
\* grades, and there the double is the fraction itself.
FormatAvg(total, count) ==
    IF count = 0 THEN 0
    ELSE IF total >= 0 THEN RoundHalfEven(100 * total, count)
    ELSE 0 - RoundHalfEven(100 * (0 - total), count)

\* s.get("grades", {})
GradesOf(rec) == IF "grades" \in DOMAIN rec THEN rec["grades"] ELSE EmptyDict

\* A cell of the table: f"{g:>10}" for a grade (True prints as 1), "-" without.
GradeCell(g) == [text |-> "grade", n |-> g.val]
DashCell     == [text |-> "-",     n |-> 0]

\* The loop body's subject_totals[subj] += g, for one student and one column.
TotalStep(total, grades, subj) ==
    IF subj \in DOMAIN grades THEN total + grades[subj].val ELSE total

\* subject_counts[subj] += 1 outside the test for the subject.
CountStepAll(count, grades, subj) == count + 1

\* The loop body's subject_counts[subj] += 1, for one student and one column.
CountStep(count, grades, subj) ==
    IF subj \in DOMAIN grades THEN count + 1 ELSE count

\* The row of one student: its cells and its average.
StudentRow(name, grades, all_subjects) ==
    LET has == SelectSeq(all_subjects, LAMBDA subj : subj \in DOMAIN grades)
        present_grades == [i \in 1..Len(has) |-> grades[has[i]].val]
    IN [name  |-> name,
        cells |-> [i \in 1..Len(all_subjects) |->
                      IF all_subjects[i] \in DOMAIN grades
                      THEN GradeCell(grades[all_subjects[i]]) ELSE DashCell],
        avg   |-> FormatAvg(SumSeq(present_grades), Len(present_grades))]

NoRecords  == "No records to display."
NoOutput   == [msg |-> "", header |-> <<>>, rows |-> <<>>, avgs |-> <<>>]

\* display_records(students): what it prints.
display_records(view) ==
    IF DOMAIN view = {}
    THEN [msg |-> NoRecords, header |-> <<>>, rows |-> <<>>, avgs |-> <<>>]
    ELSE
    LET all_subjects == Sorted(UNION {DOMAIN GradesOf(view[n]) : n \in DOMAIN view},
                               SubjectOrder)
        names == Sorted(DOMAIN view, NameOrder)
        \* subject_totals and subject_counts after the first i students' rows
        totals[i \in 0..Len(names)] ==
            IF i = 0 THEN [k \in 1..Len(all_subjects) |-> 0]
            ELSE [k \in 1..Len(all_subjects) |->
                    TotalStep(totals[i - 1][k], GradesOf(view[names[i]]), all_subjects[k])]
        counts[i \in 0..Len(names)] ==
            IF i = 0 THEN [k \in 1..Len(all_subjects) |-> 0]
            ELSE [k \in 1..Len(all_subjects) |->
                    CountStep(counts[i - 1][k], GradesOf(view[names[i]]), all_subjects[k])]
    IN [msg    |-> "",
        header |-> <<"Student">> \o all_subjects \o <<"Average">>,
        rows   |-> [i \in 1..Len(names) |->
                      StudentRow(names[i], GradesOf(view[names[i]]), all_subjects)],
        avgs   |-> [k \in 1..Len(all_subjects) |->
                      FormatAvg(totals[Len(names)][k], counts[Len(names)][k])]]

\* A call of `op` with the name `name` that returned `ret` (FALSE for the calls
\* that return nothing).
Call(op, name, ret) == [op |-> op, name |-> name, ret |-> ret]

Init ==
    /\ students = EmptyStore
    /\ heap = [r \in {} |-> EmptyDict]
    /\ callerRef = NoRef
    /\ last = Call("none", "", FALSE)
    /\ pc = "edit"
    /\ file = NoFile
    /\ writer = "none"
    /\ loaded = EmptyView
    /\ out = NoOutput

\* The caller builds its grades argument (a dict d, or a list) and calls
\* add_student.  callerRef is the caller's reference to the dict a record
\* was just made from; the caller drops it at its next call.
AddStudent(name, isDict, d) ==
    /\ pc = "edit"
    /\ LET hp0 == [r \in (DOMAIN heap \ {ArgRef}) \cup (IF isDict THEN {ArgRef} ELSE {})
                      |-> IF r = ArgRef THEN d ELSE heap[r]]
           g   == IF isDict THEN PyDict(ArgRef) ELSE PyList
           res == add_student(students, hp0, name, g)
           ref == IF res.ret THEN ArgRef ELSE NoRef
       IN /\ students' = res.students
          /\ heap' = Collect(res.students, res.heap, {ref})
          /\ callerRef' = ref
          /\ last' = Call("add", name, res.ret)
    /\ UNCHANGED <<pc, file, writer, loaded, out>>

UpdateGrade(name, subject, newGrade) ==
    /\ pc = "edit"
    /\ LET res == update_grade(students, heap, name, subject, newGrade)
       IN /\ students' = res.students
          /\ heap' = Collect(res.students, res.heap, {})
          /\ callerRef' = NoRef
          /\ last' = Call("update", name, res.ret)
    /\ UNCHANGED <<pc, file, writer, loaded, out>>

DeleteStudent(name) ==
    /\ pc = "edit"
    /\ LET res == delete_student(students, heap, name)
       IN /\ students' = res.students
          /\ heap' = Collect(res.students, res.heap, {})
          /\ callerRef' = NoRef
          /\ last' = Call("delete", name, res.ret)
    /\ UNCHANGED <<pc, file, writer, loaded, out>>

\* The caller changes the dict it passed to add_student, grades[subject] = v,
\* and drops it.
CallerSet(subject, v) ==
    /\ pc = "edit"
    /\ callerRef # NoRef
    /\ LET hp == [heap EXCEPT ![callerRef] =
                    [k \in DOMAIN @ \cup {subject} |-> IF k = subject THEN v ELSE @[k]]]
       IN heap' = Collect(students, hp, {})
    /\ callerRef' = NoRef
    /\ last' = Call("caller", "", FALSE)
    /\ UNCHANGED <<students, pc, file, writer, loaded, out>>

\* The caller changes the dict it passed to add_student, del grades[subject],
\* and drops it.
CallerDel(subject) ==
    /\ pc = "edit"
    /\ callerRef # NoRef
    /\ subject \in DOMAIN heap[callerRef]
    /\ LET hp == [heap EXCEPT ![callerRef] = [k \in DOMAIN @ \ {subject} |-> @[k]]]
       IN heap' = Collect(students, hp, {})
    /\ callerRef' = NoRef
    /\ last' = Call("caller", "", FALSE)
    /\ UNCHANGED <<students, pc, file, writer, loaded, out>>

\* display_records(students), once the edits are over.
DisplayRecords ==
    /\ pc = "edit"
    /\ out' = display_records(View)
    /\ heap' = Collect(students, heap, {})
    /\ callerRef' = NoRef
    /\ last' = Call("display", "", FALSE)
    /\ pc' = "shown"
    /\ UNCHANGED <<students, file, writer, loaded>>

\* save_data(students, "students.json")
SaveData(ok, kept) ==
    /\ pc = "shown"
    /\ LET res == save_data(View, file, ok, kept)
       IN /\ file' = res.file
          /\ last' = Call("save", "", res.ret)
          /\ writer' = IF ok THEN "save" ELSE IF kept THEN writer ELSE "cut"
    /\ pc' = "saved"
    /\ UNCHANGED <<students, heap, callerRef, loaded, out>>

\* Something else writes students.json, or removes it, before it is loaded.
ExternalWrite(f) ==
    /\ pc = "saved"
    /\ file' = f
    /\ last' = Call("external", "", FALSE)
    /\ writer' = "other"
    /\ UNCHANGED <<students, heap, callerRef, pc, loaded, out>>

\* loaded = load_data("students.json")
LoadData ==
    /\ pc = "saved"
    /\ loaded' = load_data(file)
    /\ last' = Call("load", "", FALSE)
    /\ pc' = "loaded"
    /\ UNCHANGED <<students, heap, callerRef, file, writer, out>>

\* display_records(loaded)
DisplayLoaded ==
    /\ pc = "loaded"
    /\ out' = display_records(loaded)
    /\ pc' = "done"
    /\ UNCHANGED <<students, heap, callerRef, last, file, writer, loaded>>

Next ==
    \/ \E name \in NameArgs, d \in DictArgs : AddStudent(name, TRUE, d)
    \/ \E name \in NameArgs : AddStudent(name, FALSE, EmptyDict)
    \/ \E name \in NameArgs, subject \in SubjectArgs, g \in GradeArgs :
          UpdateGrade(name, subject, g)
    \/ \E name \in NameArgs : DeleteStudent(name)
    \/ \E subject \in SubjectArgs, v \in GradeArgs : CallerSet(subject, v)
    \/ \E subject \in Subjects : CallerDel(subject)
    \/ DisplayRecords
    \/ \E ok \in BOOLEAN, kept \in BOOLEAN : SaveData(ok, kept)
    \/ \E f \in ForeignFiles : ExternalWrite(f)
    \/ LoadData
    \/ DisplayLoaded

Spec == Init /\ [][Next]_vars

(* ------------------------------------------------------------------ *)
(* Properties                                                          *)
(* ------------------------------------------------------------------ *)

\* An integer as Python counts them: an int, or a bool (True is the int 1).
IsPyInteger(v) == v.type \in {"int", "bool"}

InRange(v) == MinGrade <= v.val /\ v.val <= MaxGrade

RECURSIVE SetSum(_, _)
\* The sum of f[x] over the x of S.
SetSum(f, S) ==
    IF S = {} THEN 0
    ELSE LET x == CHOOSE y \in S : TRUE IN f[x] + SetSum(f, S \ {x})

\* C1: from the empty store, after any add_student, update_grade and
\* delete_student calls, every record has a non-empty grades dict whose
\* subjects are non-empty strings and whose grades are integers in 0..100.
C1_StoredGradesValid ==
    \A n \in DOMAIN students :
        LET d == heap[students[n].grades]
        IN /\ DOMAIN d # {}
           /\ \A k \in DOMAIN d :
                 /\ IsInstanceStr(k) /\ k # ""
                 /\ IsPyInteger(d[k]) /\ InRange(d[k])

\* C1's case: two records, after an update_grade that wrote a grade.
C1_Witness ==
    /\ Cardinality(DOMAIN students) = 2
    /\ last.op = "update" /\ last.ret

\* C2: an add_student or update_grade that returns False leaves the store as
\* it was: the same names, the same subjects, the same grades.
C2_FailedCallKeepsStore ==
    [][(last'.op \in {"add", "update"} /\ ~last'.ret)
          => (students' = students /\ View' = View)]_vars

\* C2's case: an update_grade that returned False on a store with records.
C2_Witness ==
    /\ last.op = "update" /\ ~last.ret
    /\ last.name \in DOMAIN students

\* C3: after a successful add_student the record's grades are the grades
\* passed, and the caller changing its dict afterwards leaves the store as
\* it was.
C3_AddCopiesGrades ==
    [][/\ (last'.op = "add" /\ last'.ret) =>
            \A d \in DictArgs :
                AddStudent(last'.name, TRUE, d)
                    => (last'.name \in DOMAIN students' /\ View'[last'.name].grades = d)
       /\ last'.op = "caller" => View' = View]_vars

\* C3's case: the caller has changed the dict a record was made from.
C3_Witness ==
    /\ last.op = "caller"
    /\ DOMAIN students # {}

\* C4: add_student with a name that is in the store returns False and leaves
\* the store as it was, whatever grades it is given.
C4_SecondAddRefused ==
    [][(last'.op = "add" /\ last'.name \in DOMAIN students)
          => (~last'.ret /\ students' = students /\ View' = View)]_vars

\* C4's case: add_student was refused for a name that has a record.
C4_Witness ==
    /\ last.op = "add" /\ ~last.ret
    /\ last.name \in DOMAIN students

\* C5: update_grade keeps the names and every record's subjects; a call that
\* returns True named a subject the record has (with a subject the record
\* lacks it returns False), and its one change is that the named student's
\* named subject has the new grade; a call that returns False changes nothing.
C5_UpdateChangesOneGrade ==
    [][last'.op = "update" =>
          /\ DOMAIN View' = DOMAIN View
          /\ \A n \in DOMAIN View : DOMAIN View'[n].grades = DOMAIN View[n].grades
          /\ ~last'.ret => View' = View
          /\ last'.ret =>
                \A subject \in SubjectArgs, g \in GradeArgs :
                    UpdateGrade(last'.name, subject, g) =>
                       /\ last'.name \in DOMAIN View
                       /\ subject \in DOMAIN View[last'.name].grades
                       /\ View' = [View EXCEPT ![last'.name].grades[subject] = g]]_vars

\* C5's case: update_grade wrote a grade in a store of two records.
C5_Witness ==
    /\ last.op = "update" /\ last.ret
    /\ Cardinality(DOMAIN students) = 2
    /\ \E n \in DOMAIN students : Cardinality(DOMAIN View[n].grades) = 2

\* C6: delete_student returns True exactly when the name was in the store;
\* afterwards the name is absent and the other records are as they were; the
\* name stays absent until add_student adds it, so a second delete_student
\* returns False.
C6_DeleteRemovesOne ==
    [][/\ last'.op = "delete" =>
            /\ last'.ret = (last'.name \in DOMAIN students)
            /\ DOMAIN students' = DOMAIN students \ {last'.name}
            /\ \A n \in DOMAIN students' :
                  students'[n] = students[n] /\ View'[n] = View[n]
       /\ \A n \in DOMAIN students' \ DOMAIN students :
             last'.op = "add" /\ last'.name = n /\ last'.ret
       /\ (last.op = "delete" /\ last'.op = "delete" /\ last'.name = last.name)
             => ~last'.ret]_vars

\* C6's case: delete_student removed one record and left another.
C6_Witness ==
    /\ last.op = "delete" /\ last.ret
    /\ DOMAIN students # {}

\* C7: load_data of the file a successful save_data wrote returns the store
\* that was saved: the same names, subjects and grades.
C7_SaveLoadRoundTrip ==
    (pc \in {"loaded", "done"} /\ writer = "save") => loaded = View

\* C7's case: a store of two records, one with a bool grade, saved and loaded.
C7_Witness ==
    /\ pc = "loaded" /\ writer = "save"
    /\ Cardinality(DOMAIN students) = 2
    /\ \E n \in DOMAIN View : \E k \in DOMAIN View[n].grades :
          View[n].grades[k] = PyFalse

\* C8: every grade of a store load_data returns is within 0..100.
C8_LoadedGradesInRange ==
    pc \in {"loaded", "done"} =>
        \A n \in DOMAIN loaded : \A k \in DOMAIN loaded[n]["grades"] :
            InRange(loaded[n]["grades"][k])

\* A file load_data must refuse: absent, unreadable or no JSON; a root that
\* is no object; a record that is no object or has no grades object; a grade
\* that is no integer (JSON true and false are the ints 1 and 0 for Python).
FileIsBad(f) ==
    \/ f.kind # "json"
    \/ f.doc.j # "object"
    \/ \E n \in DOMAIN f.doc.mem :
          LET rec == f.doc.mem[n]
          IN \/ rec.j # "object"
             \/ "grades" \notin DOMAIN rec.mem
             \/ rec.mem["grades"].j # "object"
             \/ \E k \in DOMAIN rec.mem["grades"].mem :
                   rec.mem["grades"].mem[k].j \notin {"int", "true", "false"}

\* C9: load_data returns the empty store for a file it must refuse and the
\* whole parsed store otherwise, never a part of the file's records.
C9_LoadAllOrNothing ==
    pc \in {"loaded", "done"} =>
        loaded = IF FileIsBad(file) THEN EmptyView ELSE LoadStore(file.doc)

\* C9's case: a file of two records, one of them bad, loaded as the empty store.
C9_Witness ==
    /\ pc = "loaded" /\ file.kind = "json" /\ file.doc.j = "object"
    /\ Cardinality(DOMAIN file.doc.mem) = 2
    /\ FileIsBad(file)
    /\ loaded = EmptyView

\* The store the last display_records was given.
Shown == IF pc = "done" THEN loaded ELSE View

\* `cents` hundredths is total / count to two decimals (0.00 without grades).
IsAverage(cents, total, count) ==
    IF count = 0 THEN cents = 0
    ELSE /\ 2 * (100 * total - cents * count) <= count
         /\ 2 * (cents * count - 100 * total) <= count

\* The script's example of the table.
AliceStore ==
    [n \in {"Alice"} |->
        [grades |-> [k \in {"English", "Math"} |->
                        IF k = "Math" THEN PyInt(90) ELSE PyInt(80)]]]
AliceTable ==
    [msg    |-> "",
     header |-> <<"Student", "English", "Math", "Average">>,
     rows   |-> <<[name |-> "Alice", cells |-> <<GradeCell(PyInt(80)), GradeCell(PyInt(90))>>,
                   avg |-> 8500]>>,
     avgs   |-> <<8000, 9000>>]

\* C10: for a non-empty store display_records prints one row per student
\* with the student's grades, "-" for a subject the student lacks, and the
\* average of the grades the student has (0.00 without any), and a last row
\* with, per subject, the average over the students who have the subject.
C10_DisplayAverages ==
    /\ display_records(AliceStore) = AliceTable
    /\ (pc # "edit" /\ DOMAIN Shown # {}) =>
        LET cols == UNION {DOMAIN GradesOf(Shown[n]) : n \in DOMAIN Shown}
            val(n) == [k \in DOMAIN GradesOf(Shown[n]) |-> GradesOf(Shown[n])[k].val]
        IN /\ Len(out.header) = Cardinality(cols) + 2
           /\ {out.header[k + 1] : k \in 1..Len(out.avgs)} = cols
           /\ {out.rows[i].name : i \in 1..Len(out.rows)} = DOMAIN Shown
           /\ Len(out.rows) = Cardinality(DOMAIN Shown)
           /\ Len(out.avgs) = Cardinality(cols)
           /\ \A i \in 1..Len(out.rows) :
                 LET n == out.rows[i].name
                     g == GradesOf(Shown[n])
                 IN /\ IsAverage(out.rows[i].avg, SetSum(val(n), DOMAIN g),
                                  Cardinality(DOMAIN g))
                    /\ Len(out.rows[i].cells) = Cardinality(cols)
                    /\ \A k \in 1..Len(out.rows[i].cells) :
                          out.rows[i].cells[k] =
                              IF out.header[k + 1] \in DOMAIN g
                              THEN GradeCell(g[out.header[k + 1]]) ELSE DashCell
           /\ \A k \in 1..Len(out.avgs) :
                 LET s    == out.header[k + 1]
                     have == {n \in DOMAIN Shown : s \in DOMAIN GradesOf(Shown[n])}
                     col  == [n \in have |-> GradesOf(Shown[n])[s].val]
                 IN IsAverage(out.avgs[k], SetSum(col, have), Cardinality(have))

\* C10's case: two students shown, one of them without a subject of the other.
C10_Witness ==
    /\ pc = "shown"
    /\ Cardinality(DOMAIN View) = 2
    /\ \E n \in DOMAIN View : Cardinality(DOMAIN View[n].grades) = 1
    /\ Len(out.avgs) = 2
    /\ \E i \in 1..2 : \E k \in 1..2 : out.rows[i].cells[k] = DashCell

====
